---- MODULE Spec2Model ----
(***************************************************************************)
(* StoryForge backend: the Narrative DNA analysis service                  *)
(* (app/services/analysis_service.py), its /analytics/analyze endpoint     *)
(* (app/routers/analytics.py) and the AI branch generation service with    *)
(* its Redis cache (app/services/ai_service.py, app/routers/branches.py).  *)
(*                                                                         *)
(* Text is modelled character by character on TLA+ strings: str.count,     *)
(* str.lower, str.split, the regular expressions and the f-strings of the  *)
(* source are operators that compute what the Python computes.             *)
(***************************************************************************)
EXTENDS Integers, Sequences, FiniteSets, TLC

VARIABLES
    nodes,      \* AnalysisRequest.nodes of the request being served
    result,     \* outcome of the call for this request (NoResult while pending)
    previous,   \* outcome of the call before, when the request was repeated
    invoked,    \* whether analysis_service.analyze_story was entered for it
    now,        \* datetime.now()
    redis_client,       \* ai_service.redis_client: None or the Redis client
    cache,              \* the Redis keys set by the service, key -> cached value
    branch_request,     \* the last branch request served, and by which route
    branch_response,    \* the answer it got
    generation_failed   \* whether serving it logged "AI generation failed"

analysis_vars == <<nodes, result, previous, invoked>>
branch_vars == <<redis_client, cache, branch_request, branch_response, generation_failed>>
vars == <<nodes, result, previous, invoked, now, redis_client, cache, branch_request,
          branch_response, generation_failed>>

-----------------------------------------------------------------------------
(* Bounds of the model.                                                    *)

MaxScenes == 2      \* nodes per request; created_at ranges over 1..MaxScenes
MaxClock == 1       \* the clock of the analysis service stops advancing here
MaxRequests == 3    \* branch requests served

-----------------------------------------------------------------------------
(* Python str primitives.                                                  *)

Min(a, b) == IF a < b THEN a ELSE b
Max(a, b) == IF a > b THEN a ELSE b

Char(s, i) == SubSeq(s, i, i)

UpperLetters == "ABCDEFGHIJKLMNOPQRSTUVWXYZ"
LowerLetters == "abcdefghijklmnopqrstuvwxyz"
DigitChars == "0123456789"

UpperSet == {Char(UpperLetters, i) : i \in 1..Len(UpperLetters)}
LowerSet == {Char(LowerLetters, i) : i \in 1..Len(LowerLetters)}
WordCharSet == UpperSet \cup LowerSet \cup {Char(DigitChars, i) : i \in 1..Len(DigitChars)} \cup {"_"}

ToLowerMap == [c \in UpperSet |->
                 Char(LowerLetters, CHOOSE i \in 1..Len(UpperLetters) : Char(UpperLetters, i) = c)]
ToUpperMap == [c \in LowerSet |->
                 Char(UpperLetters, CHOOSE i \in 1..Len(LowerLetters) : Char(LowerLetters, i) = c)]

IsSpace(c) == c \in {" ", "\t", "\n", "\r"}

SetMin(S) == CHOOSE x \in S : \A y \in S : x <= y
SetMax(S) == CHOOSE x \in S : \A y \in S : x >= y

\* F(lo) \o ... \o F(hi) for string pieces, and for sequence pieces; the
\* range is halved so that the nesting stays logarithmic in its length
RECURSIVE str_concat(_, _, _)
str_concat(F(_), lo, hi) ==
    IF lo > hi THEN ""
    ELSE IF lo = hi THEN F(lo)
    ELSE LET mid == (lo + hi) \div 2
         IN str_concat(F, lo, mid) \o str_concat(F, mid + 1, hi)

RECURSIVE seq_concat(_, _, _)
seq_concat(F(_), lo, hi) ==
    IF lo > hi THEN <<>>
    ELSE IF lo = hi THEN F(lo)
    ELSE LET mid == (lo + hi) \div 2
         IN seq_concat(F, lo, mid) \o seq_concat(F, mid + 1, hi)

\* str.lower()
lower(s) ==
    LET low(i) == LET c == Char(s, i) IN IF c \in UpperSet THEN ToLowerMap[c] ELSE c
    IN str_concat(low, 1, Len(s))

\* str.title(): a cased character is upper-cased after an uncased one and
\* lower-cased after a cased one.
title(s) ==
    LET cased(i) ==
            LET c == Char(s, i)
                afterCased == i > 1 /\ Char(s, i - 1) \in (UpperSet \cup LowerSet)
            IN IF afterCased
               THEN (IF c \in UpperSet THEN ToLowerMap[c] ELSE c)
               ELSE (IF c \in LowerSet THEN ToUpperMap[c] ELSE c)
    IN str_concat(cased, 1, Len(s))

\* the first index >= i at which sub occurs in s, 0 when there is none
find(s, sub, i) ==
    LET at == {k \in i..(Len(s) - Len(sub) + 1) : SubSeq(s, k, k + Len(sub) - 1) = sub}
    IN IF at = {} THEN 0 ELSE SetMin(at)

\* str.count(sub): non-overlapping occurrences, scanning left to right.
\* Of the places where sub occurs, the first at or after i is counted and
\* the scan goes on behind it.
RECURSIVE count_from(_, _, _)
count_from(places, width, i) ==
    LET ahead == {k \in places : k >= i}
    IN IF ahead = {} THEN 0 ELSE 1 + count_from(places, width, SetMin(ahead) + width)

count(s, sub) ==
    LET places == {k \in 1..(Len(s) - Len(sub) + 1) : SubSeq(s, k, k + Len(sub) - 1) = sub}
    IN count_from(places, Len(sub), 1)

\* sub in s
contains(s, sub) ==
    \E i \in 1..(Len(s) - Len(sub) + 1) : SubSeq(s, i, i + Len(sub) - 1) = sub

\* str.strip()
strip(s) ==
    LET keep == {i \in 1..Len(s) : ~IsSpace(Char(s, i))}
    IN IF keep = {} THEN "" ELSE SubSeq(s, SetMin(keep), SetMax(keep))

\* len(s.split()): the number of maximal runs of non-whitespace characters
split_len(s) ==
    Cardinality({i \in 1..Len(s) :
                    /\ ~IsSpace(Char(s, i))
                    /\ (i = 1 \/ IsSpace(Char(s, i - 1)))})

\* sum(text.count(keyword) for keyword in keywords)
RECURSIVE sum_counts(_, _)
sum_counts(text, keywords) ==
    IF keywords = <<>> THEN 0
    ELSE count(text, Head(keywords)) + sum_counts(text, Tail(keywords))

\* any(word in text for word in words)
any_in(text, words) == \E k \in 1..Len(words) : contains(text, words[k])

\* ' '.join(parts)
RECURSIVE join(_, _)
join(sep, parts) ==
    IF parts = <<>> THEN ""
    ELSE IF Len(parts) = 1 THEN parts[1]
    ELSE parts[1] \o sep \o join(sep, Tail(parts))

RECURSIVE sum_seq(_)
sum_seq(xs) == IF xs = <<>> THEN 0 ELSE Head(xs) + sum_seq(Tail(xs))

\* re.sub(r'<[^>]+>', '', s): a '<' followed by one or more characters other
\* than '>' and then '>' is dropped; "<>" and an unclosed '<' stay.
RECURSIVE strip_tags_from(_, _)
strip_tags_from(s, i) ==
    LET open == find(s, "<", i)
        close == IF open = 0 THEN 0 ELSE find(s, ">", open + 1)
    IN IF open = 0 THEN SubSeq(s, i, Len(s))
       ELSE IF close >= open + 2
            THEN SubSeq(s, i, open - 1) \o strip_tags_from(s, close + 1)
            ELSE SubSeq(s, i, open) \o strip_tags_from(s, open + 1)
strip_tags(s) == strip_tags_from(s, 1)

\* sorted(nodes, key=lambda x: x.created_at): stable, ascending
\* variant: a scene goes before the scenes of equal created_at
RECURSIVE insert_before_equal(_, _)
insert_before_equal(s, x) ==
    IF s = <<>> THEN <<x>>
    ELSE IF x.created_at <= Head(s).created_at THEN <<x>> \o s
    ELSE <<Head(s)>> \o insert_before_equal(Tail(s), x)

RECURSIVE insert_sorted(_, _)
insert_sorted(s, x) ==
    IF s = <<>> THEN <<x>>
    ELSE IF x.created_at < Head(s).created_at THEN <<x>> \o s
    ELSE <<Head(s)>> \o insert_sorted(Tail(s), x)

RECURSIVE sorted_by_created_at(_)
sorted_by_created_at(ns) ==
    IF ns = <<>> THEN <<>>
    ELSE insert_sorted(sorted_by_created_at(SubSeq(ns, 1, Len(ns) - 1)), ns[Len(ns)])

-----------------------------------------------------------------------------
(* AnalysisService.__init__: the fixed lexicon.                            *)

emotion_keywords == <<
    [emotion |-> "tension",
     keywords |-> <<"conflict", "tension", "danger", "threat", "fear", "suspense", "crisis">>],
    [emotion |-> "joy",
     keywords |-> <<"happy", "joy", "laugh", "smile", "celebration", "triumph">>],
    [emotion |-> "sadness",
     keywords |-> <<"sad", "cry", "tears", "grief", "loss", "mourning">>],
    [emotion |-> "anger",
     keywords |-> <<"angry", "rage", "fury", "mad", "furious", "hostile">>],
    [emotion |-> "love",
     keywords |-> <<"love", "romance", "affection", "tender", "caring", "devotion">>] >>

tension_keywords == emotion_keywords[1].keywords

context_words == <<"climax", "confrontation", "revelation">>

pacing_action == <<"ran", "rushed", "fought", "attacked", "chased", "battle", "explosion">>
pacing_description == <<"looked", "appeared", "seemed", "was", "were", "beautiful", "dark">>

-----------------------------------------------------------------------------
(* _extract_story_text                                                     *)

RECURSIVE text_parts(_)
text_parts(sorted_nodes) ==
    IF sorted_nodes = <<>> THEN <<>>
    ELSE LET clean_text == strip_tags(Head(sorted_nodes).content)
         IN (IF strip(clean_text) # "" THEN <<strip(clean_text)>> ELSE <<>>)
            \o text_parts(Tail(sorted_nodes))

extract_story_text(ns) == join(" ", text_parts(sorted_by_created_at(ns)))

-----------------------------------------------------------------------------
(* _analyze_emotional_arc and _detect_dominant_emotion                     *)

\* variant: the tags are stripped and the case is kept
arc_clean_text_cased(content) == strip_tags(content)

\* re.sub(r'<[^>]+>', '', node.content).lower()
arc_clean_text(content) == lower(strip_tags(content))

\* variant: the score is not capped
scene_tension_uncapped(clean_text) ==
    10 * sum_counts(clean_text, tension_keywords)
    + (IF any_in(clean_text, context_words) THEN 30 ELSE 0)

scene_tension(clean_text) ==
    Min(100, 10 * sum_counts(clean_text, tension_keywords)
             + (IF any_in(clean_text, context_words) THEN 30 ELSE 0))

\* variant: among tied emotions the last declared wins
detect_dominant_emotion_last(text) ==
    LET emotion_counts == [e \in 1..Len(emotion_keywords) |->
                             sum_counts(text, emotion_keywords[e].keywords)]
    IN IF \A e \in DOMAIN emotion_counts : emotion_counts[e] = 0 THEN "neutral"
       ELSE LET last_max == CHOOSE e \in DOMAIN emotion_counts :
                               /\ \A f \in DOMAIN emotion_counts :
                                     emotion_counts[f] <= emotion_counts[e]
                               /\ \A f \in (e + 1)..Len(emotion_keywords) :
                                     emotion_counts[f] < emotion_counts[e]
            IN emotion_keywords[last_max].emotion

detect_dominant_emotion(text) ==
    LET emotion_counts == [e \in 1..Len(emotion_keywords) |->
                             sum_counts(text, emotion_keywords[e].keywords)]
    IN IF \A e \in DOMAIN emotion_counts : emotion_counts[e] = 0 THEN "neutral"
       ELSE LET first_max == CHOOSE e \in DOMAIN emotion_counts :
                                /\ \A f \in DOMAIN emotion_counts :
                                      emotion_counts[f] <= emotion_counts[e]
                                /\ \A f \in 1..(e - 1) : emotion_counts[f] < emotion_counts[e]
            IN emotion_keywords[first_max].emotion

\* variant: the mean is rounded to the nearest integer
int_mean_rounded(xs) == (2 * sum_seq(xs) + Len(xs)) \div (2 * Len(xs))

\* int(statistics.mean(tension_scores)): the exact mean, cut to an integer
int_mean(xs) == sum_seq(xs) \div Len(xs)

analyze_emotional_arc(ns) ==
    LET sorted_nodes == sorted_by_created_at(ns)
        emotional_points == [i \in 1..Len(sorted_nodes) |->
            LET clean_text == arc_clean_text(sorted_nodes[i].content)
            IN [scene |-> i,
                title |-> sorted_nodes[i].title,
                tension |-> scene_tension(clean_text),
                dominant_emotion |-> detect_dominant_emotion(clean_text)]]
        tension_scores == [i \in 1..Len(sorted_nodes) |-> emotional_points[i].tension]
        max_tension_idx == CHOOSE i \in DOMAIN tension_scores :
                              /\ \A j \in DOMAIN tension_scores :
                                    tension_scores[j] <= tension_scores[i]
                              /\ \A j \in 1..(i - 1) : tension_scores[j] < tension_scores[i]
    IN IF Len(tension_scores) > 0
       THEN [tension_score |-> int_mean(tension_scores),
             peak_moment |-> sorted_nodes[max_tension_idx].title,
             emotional_points |-> emotional_points]
       ELSE [tension_score |-> 0,
             peak_moment |-> "No peak identified",
             emotional_points |-> emotional_points]

-----------------------------------------------------------------------------
(* _analyze_character_development and its helpers                          *)

common_words == {"The", "And", "But", "When", "Where", "What", "How", "Why", "This", "That"}

development_indicators == <<"learned", "realized", "understood", "changed", "grew", "developed",
                            "discovered", "found", "became", "transformed">>

development_words == <<"changed", "learned", "grew", "realized", "became", "transformed">>

\* re.findall(r'\b[A-Z][a-z]+\b', text).  A match starts at an upper-case
\* letter that follows a non-word character (or starts the text), takes the
\* whole run of lower-case letters after it (at least one) and must end at
\* a word boundary; the characters of a match are lower-case after the
\* first, so no match starts inside another and each start is decided
\* locally.
lower_run_end(s, i) ==
    SetMin({k \in i..Len(s) : k = Len(s) \/ Char(s, k + 1) \notin LowerSet})

findall_names(s) ==
    LET match_at(i) ==
            LET e == lower_run_end(s, i)
                matches == /\ Char(s, i) \in UpperSet
                           /\ (i = 1 \/ Char(s, i - 1) \notin WordCharSet)
                           /\ e >= i + 1
                           /\ (e = Len(s) \/ Char(s, e + 1) \notin WordCharSet)
            IN IF matches THEN <<SubSeq(s, i, e)>> ELSE <<>>
    IN seq_concat(match_at, 1, Len(s))

\* variant: the keys in the order of their last occurrence
counter_keys_last(words) ==
    LET last_at(k) == IF \E j \in (k + 1)..Len(words) : words[j] = words[k]
                      THEN <<>> ELSE <<words[k]>>
    IN seq_concat(last_at, 1, Len(words))

\* the keys of Counter(words), in the order of their first occurrence
counter_keys(words) ==
    LET first_at(k) == IF \E j \in 1..(k - 1) : words[j] = words[k] THEN <<>> ELSE <<words[k]>>
    IN seq_concat(first_at, 1, Len(words))

counter_count(words, w) == Cardinality({k \in 1..Len(words) : words[k] = w})

extract_character_names(text) ==
    LET words == findall_names(text)
        keep(name) == /\ counter_count(words, name) >= 3
                      /\ name \notin common_words
                      /\ Len(name) > 2
        potential_names == SelectSeq(counter_keys(words), keep)
    IN SubSeq(potential_names, 1, Min(10, Len(potential_names)))

\* variant: an indicator counts once however often it occurs
count_protagonist_development_once(text) ==
    LET text_lower == lower(text)
    IN Cardinality({k \in DOMAIN development_indicators :
                      contains(text_lower, development_indicators[k])})

count_protagonist_development(text) == sum_counts(lower(text), development_indicators)

\* re.split(r'[.!?]+', text)
IsTerminator(c) == c \in {".", "!", "?"}

\* The pieces between the runs of terminators, in order; a text that starts
\* (ends) with a terminator, and the empty text, give an empty first (last)
\* piece.
split_sentences(s) ==
    LET piece_at(i) ==
            IF /\ ~IsTerminator(Char(s, i))
               /\ (i = 1 \/ IsTerminator(Char(s, i - 1)))
            THEN <<SubSeq(s, i, SetMin({k \in i..Len(s) :
                                          k = Len(s) \/ IsTerminator(Char(s, k + 1))}))>>
            ELSE <<>>
        leading == IF s = "" \/ IsTerminator(Char(s, 1)) THEN <<"">> ELSE <<>>
        trailing == IF s # "" /\ IsTerminator(Char(s, Len(s))) THEN <<"">> ELSE <<>>
    IN leading \o seq_concat(piece_at, 1, Len(s)) \o trailing

\* sentence.lower() for every sentence of the text
lower_sentences(text) ==
    LET sentences == split_sentences(text)
    IN [k \in 1..Len(sentences) |-> lower(sentences[k])]

co_occurrence(char1, char2, sentences) ==
    Cardinality({k \in 1..Len(sentences) :
                    /\ contains(sentences[k], lower(char1))
                    /\ contains(sentences[k], lower(char2))})

relationship_key(char1, char2) == char1 \o "-" \o char2

\* the (char1, char2) pairs in the order the two loops visit them:
\* char1 = characters[:5][i], char2 in characters[i+1:6]
\* variant: every ordered pair of candidates, a candidate with itself included
relationship_pairs_ordered(characters) ==
    LET n == Min(6, Len(characters))
        RECURSIVE pairs_from(_)
        pairs_from(k) == IF k >= n * n THEN <<>>
                         ELSE <<<<characters[(k \div n) + 1], characters[(k % n) + 1]>>>>
                              \o pairs_from(k + 1)
    IN pairs_from(0)

relationship_pairs(characters) ==
    LET firsts == 1..Min(5, Len(characters))
        inner(i) == [j \in 1..Max(0, Min(6, Len(characters)) - i) |->
                        <<characters[i], characters[i + j]>>]
        RECURSIVE outer(_)
        outer(i) == IF i \notin firsts THEN <<>> ELSE inner(i) \o outer(i + 1)
    IN outer(1)

dict_put(d, k, v) == [x \in DOMAIN d \cup {k} |-> IF x = k THEN v ELSE d[x]]

\* variant: the strength is the number of shared sentences, however many
relationship_edge_uncapped(char1, char2, sentences) ==
    LET n == co_occurrence(char1, char2, sentences)
    IN IF n > 0 THEN <<[strength |-> n, type |-> "connected"]>> ELSE <<>>

\* the edge the loop body computes for a pair: none, or one
relationship_edge(char1, char2, sentences) ==
    LET n == co_occurrence(char1, char2, sentences)
    IN IF n > 0 THEN <<[strength |-> Min(10, n), type |-> "connected"]>> ELSE <<>>

RECURSIVE store_relationships(_, _, _)
store_relationships(relationships, pairs, sentences) ==
    IF pairs = <<>> THEN relationships
    ELSE LET char1 == Head(pairs)[1]
             char2 == Head(pairs)[2]
             edge == relationship_edge(char1, char2, sentences)
             updated == IF edge # <<>>
                        THEN dict_put(relationships, relationship_key(char1, char2), edge[1])
                        ELSE relationships
         IN store_relationships(updated, Tail(pairs), sentences)

build_relationship_matrix(characters, text) ==
    IF Len(characters) < 2 THEN <<>>
    ELSE store_relationships(<<>>, relationship_pairs(characters), lower_sentences(text))

analyze_character_arc(character, sentences) ==
    LET arc_indicators == Cardinality({k \in 1..Len(sentences) :
                             /\ contains(sentences[k], lower(character))
                             /\ any_in(sentences[k], development_words)})
    IN Min(10, arc_indicators)

analyze_character_development(full_text) ==
    LET characters == extract_character_names(full_text)
        protagonist_mentions == count_protagonist_development(full_text)
        growth_percentage == Min(100, Max(0, protagonist_mentions * 5))
        top == SubSeq(characters, 1, Min(5, Len(characters)))
        sentences == lower_sentences(full_text)
        text_lower == lower(full_text)
    IN [protagonist_growth |-> ToString(growth_percentage) \o "% completed",
        relationship_matrix |-> build_relationship_matrix(characters, full_text),
        character_arcs |-> [k \in 1..Len(top) |->
                              [name |-> top[k],
                               arc_strength |-> analyze_character_arc(top[k], sentences),
                               mentions |-> count(text_lower, lower(top[k]))]]]

-----------------------------------------------------------------------------
(* int((a / b) * scale) on Python floats.  The quotient a / b is rounded   *)
(* to a double before it is scaled, so for a few pairs the product falls   *)
(* just below the exact value and int() truncates one lower; the pairs     *)
(* with b up to 200 are listed (scale 100; there is none for scale 1000    *)
(* with a <= b).                                                           *)

float_short_pairs == {<<29, 50>>, <<29, 100>>, <<57, 100>>, <<58, 100>>,
                      <<87, 150>>, <<58, 200>>, <<114, 200>>, <<116, 200>>}

\* variant: the product is rounded up to the next integer
int_scaled_up(a, b, scale) == (a * scale + b - 1) \div b

int_scaled(a, b, scale) ==
    (a * scale) \div b - (IF scale = 100 /\ <<a, b>> \in float_short_pairs THEN 1 ELSE 0)

-----------------------------------------------------------------------------
(* _analyze_theme_consistency                                              *)

theme_keywords == <<
    [theme |-> "love", keywords |-> <<"love", "romance", "relationship", "heart", "affection">>],
    [theme |-> "betrayal", keywords |-> <<"betray", "deceive", "lie", "cheat", "backstab">>],
    [theme |-> "redemption", keywords |-> <<"redeem", "forgive", "second chance", "make amends">>],
    [theme |-> "power", keywords |-> <<"power", "control", "authority", "dominance", "rule">>],
    [theme |-> "identity", keywords |-> <<"identity", "self", "who am i", "belong", "purpose">>],
    [theme |-> "freedom", keywords |-> <<"freedom", "liberty", "escape", "independence", "free">>],
    [theme |-> "justice", keywords |-> <<"justice", "fair", "right", "wrong", "moral">>] >>

NoClearTheme == "No clear theme"

\* variant: among the keys of the highest score the last one
max_by_score_last(scores) ==
    CHOOSE t \in DOMAIN scores :
        /\ \A u \in DOMAIN scores : scores[u] <= scores[t]
        /\ \A u \in (t + 1)..Len(scores) : scores[u] < scores[t]

\* max(theme_scores, key=theme_scores.get): the first key of the highest score
max_by_score(scores) ==
    CHOOSE t \in DOMAIN scores :
        /\ \A u \in DOMAIN scores : scores[u] <= scores[t]
        /\ \A u \in 1..(t - 1) : scores[u] < scores[t]

analyze_theme_consistency(ns, full_text) ==
    LET text_lower == lower(full_text)
        theme_scores == [t \in 1..Len(theme_keywords) |->
                            sum_counts(text_lower, theme_keywords[t].keywords)]
        has_theme == \E t \in DOMAIN theme_scores : theme_scores[t] > 0
        core == max_by_score(theme_scores)
        core_theme == IF has_theme THEN theme_keywords[core].theme ELSE NoClearTheme
        total_words == split_len(full_text)
        consistency_score ==
            IF has_theme
            THEN Min(100, int_scaled(theme_scores[core], Max(1, total_words), 1000))
            ELSE 0
        sorted_nodes == sorted_by_created_at(ns)
        mentions(i) == sum_counts(lower(strip_tags(sorted_nodes[i].content)),
                                  theme_keywords[core].keywords)
        RECURSIVE theme_mentions_from(_)
        theme_mentions_from(i) ==
            IF i > Len(sorted_nodes) THEN <<>>
            ELSE (IF mentions(i) > 0
                  THEN <<[scene |-> i, title |-> sorted_nodes[i].title, mentions |-> mentions(i)]>>
                  ELSE <<>>) \o theme_mentions_from(i + 1)
    IN [core_theme |-> title(core_theme),
        consistency_score |-> consistency_score,
        theme_mentions |-> IF core_theme # NoClearTheme THEN theme_mentions_from(1) ELSE <<>>]

-----------------------------------------------------------------------------
(* _analyze_pacing                                                         *)

analyze_pacing(ns, full_text) ==
    LET text_lower == lower(full_text)
        action_count == sum_counts(text_lower, pacing_action)
        dialogue_count == count(full_text, "\"") + count(full_text, "'")
        description_count == sum_counts(text_lower, pacing_description)
        total_indicators == action_count + dialogue_count + description_count
        action_ratio == int_scaled(action_count, total_indicators, 100)
        dialogue_ratio == int_scaled(dialogue_count, total_indicators, 100)
        ratio_string ==
            IF total_indicators > 0
            THEN ToString(action_ratio + dialogue_ratio) \o "/"
                 \o ToString(100 - action_ratio - dialogue_ratio)
            ELSE "50/50"
        sorted_nodes == sorted_by_created_at(ns)
        is_slow(i) ==
            LET node_text == lower(strip_tags(sorted_nodes[i].content))
            IN split_len(node_text) > 100 /\ sum_counts(node_text, pacing_action) = 0
        RECURSIVE slow_sections_from(_)
        slow_sections_from(i) ==
            IF i > Len(sorted_nodes) THEN <<>>
            ELSE (IF is_slow(i)
                  THEN <<"Scene " \o ToString(i) \o ": " \o sorted_nodes[i].title>>
                  ELSE <<>>) \o slow_sections_from(i + 1)
    IN [action_vs_dialogue_ratio |-> ratio_string,
        slow_sections |-> slow_sections_from(1),
        pacing_score |-> Min(100, Max(10, action_count * 2 + dialogue_count \div 2))]

-----------------------------------------------------------------------------
(* _generate_comparative_insights                                          *)

InsightMystery == "Your structure resembles Agatha Christie's mysteries with multiple scenes building tension"
InsightEnsemble == "Character dynamics similar to ensemble narratives like 'Game of Thrones'"
InsightRomance == "Romance with conflict elements reminiscent of Jane Austen's style"
InsightFallback == "Unique narrative structure - forge your own path!"

\* variant: the fallback is added to whatever the rules gave
generate_comparative_insights_padded(ns, full_text) ==
    LET word_count == split_len(full_text)
        scene_count == Len(ns)
        text_lower == lower(full_text)
    IN (IF scene_count >= 10 /\ contains(text_lower, "mystery")
        THEN <<InsightMystery>> ELSE <<>>)
       \o (IF word_count > 5000 /\ contains(text_lower, "character")
           THEN <<InsightEnsemble>> ELSE <<>>)
       \o (IF contains(text_lower, "love") /\ contains(text_lower, "conflict")
           THEN <<InsightRomance>> ELSE <<>>)
       \o <<InsightFallback>>

generate_comparative_insights(ns, full_text) ==
    LET word_count == split_len(full_text)
        scene_count == Len(ns)
        text_lower == lower(full_text)
        insights ==
            (IF scene_count >= 10 /\ contains(text_lower, "mystery")
             THEN <<InsightMystery>> ELSE <<>>)
            \o (IF word_count > 5000 /\ contains(text_lower, "character")
                THEN <<InsightEnsemble>> ELSE <<>>)
            \o (IF contains(text_lower, "love") /\ contains(text_lower, "conflict")
                THEN <<InsightRomance>> ELSE <<>>)
    IN IF Len(insights) = 0 THEN <<InsightFallback>> ELSE insights

-----------------------------------------------------------------------------
(* AnalysisService.analyze_story                                           *)

\* sorted() compares the created_at keys with <, and datetime raises
\* TypeError when an offset-naive value meets an offset-aware one
sort_raises(ns) == \E i, j \in 1..Len(ns) : ns[i].tz_aware # ns[j].tz_aware

narrative_dna(ns, timestamp) ==
    LET full_text == extract_story_text(ns)
    IN [emotional_arc |-> analyze_emotional_arc(ns),
        character_development |-> analyze_character_development(full_text),
        theme_consistency |-> analyze_theme_consistency(ns, full_text),
        pacing_analysis |-> analyze_pacing(ns, full_text),
        comparative_insights |-> generate_comparative_insights(ns, full_text),
        analysis_timestamp |-> timestamp]

\* variant: the emotional points of the call before are kept and added to
analyze_story_accumulating(ns, timestamp) ==
    IF sort_raises(ns) THEN [status |-> "raised", error |-> "TypeError"]
    ELSE LET kept == IF previous.status = "ok"
                     THEN previous.profile.emotional_arc.emotional_points ELSE <<>>
             fresh == narrative_dna(ns, timestamp)
         IN [status |-> "ok",
             profile |-> [fresh EXCEPT !.emotional_arc.emotional_points = kept \o @]]

\* the call's outcome: the NarrativeDNA returned, or the exception that the
\* except clause logs and raises again
analyze_story(ns, timestamp) ==
    IF sort_raises(ns) THEN [status |-> "raised", error |-> "TypeError"]
    ELSE [status |-> "ok", profile |-> narrative_dna(ns, timestamp)]

-----------------------------------------------------------------------------
(* POST /analytics/analyze (routers/analytics.py)                          *)

\* sum(len(node.content.split()) for node in request.nodes)
RECURSIVE total_words(_)
total_words(ns) ==
    IF ns = <<>> THEN 0 ELSE split_len(Head(ns).content) + total_words(Tail(ns))

\* the try block: what it returns or raises
analyze_endpoint_try(ns, timestamp) ==
    IF Len(ns) = 0
    THEN [raised |-> "HTTPException", status_code |-> 400,
          detail |-> "At least one story node is required", invoked |-> FALSE]
    ELSE IF total_words(ns) < 100
    THEN [raised |-> "HTTPException", status_code |-> 400,
          detail |-> "Story needs at least 100 words for meaningful analysis",
          invoked |-> FALSE]
    ELSE LET outcome == analyze_story(ns, timestamp)
         IN IF outcome.status = "ok"
            THEN [raised |-> "", status_code |-> 200, profile |-> outcome.profile,
                  invoked |-> TRUE]
            ELSE [raised |-> outcome.error, invoked |-> TRUE]

\* variant: without the "except HTTPException: raise" clause
analyze_endpoint_except_all(attempt) ==
    IF attempt.raised = "" THEN attempt
    ELSE [raised |-> "HTTPException", status_code |-> 500,
          detail |-> "Failed to analyze story", invoked |-> attempt.invoked]

\* the except clauses: an HTTPException is raised again as it is, any other
\* exception becomes a 500
analyze_endpoint_except(attempt) ==
    IF attempt.raised = "" THEN attempt
    ELSE IF attempt.raised = "HTTPException" THEN attempt
    ELSE [raised |-> "HTTPException", status_code |-> 500,
          detail |-> "Failed to analyze story", invoked |-> attempt.invoked]

analyze_endpoint(ns, timestamp) == analyze_endpoint_except(analyze_endpoint_try(ns, timestamp))

-----------------------------------------------------------------------------
(* The requests the model draws from.                                      *)

RECURSIVE repeat(_, _)
repeat(s, n) == IF n = 0 THEN "" ELSE s \o repeat(s, n - 1)

Blank == [title |-> "Blank", content |-> "<p> </p>"]
Duel == [title |-> "Duel",
         content |-> "Alice fought Bob. Alice fought Bob again. Alice realized she had changed."]
Storm == [title |-> "Storm", content |-> "<b>Danger</b>! More danger... A revelation."]
Feast == [title |-> "Feast", content |-> "Tears of joy. Love conquers rage!"]
Panic == [title |-> "Panic", content |-> repeat("fear ", 11)]
Bond == [title |-> "Bond", content |-> repeat("Amy, Bob grew. ", 6)]
Chase == [title |-> "Chase", content |-> repeat("ran ", 26)]
Fifty == [title |-> "Fifty", content |-> repeat("so ", 50)]
FortyNine == [title |-> "FortyNine", content |-> repeat("so ", 49)]
Lull == [title |-> "Lull", content |-> repeat("a ", 100) \o "love"]
Clash == [title |-> "Clash", content |-> "Conflict, threat: climax"]
Vow == [title |-> "Vow", content |-> "Love or power?"]
Reign == [title |-> "Reign", content |-> "Power to rule."]
Oath == [title |-> "Oath", content |-> repeat("a ", 12) \o "love"]
Second == [title |-> "Second", content |-> "A second"]
Chance == [title |-> "Chance", content |-> "chance given"]
Dash == [title |-> "Dash", content |-> "He ran"]
Gaze == [title |-> "Gaze", content |-> "It was"]
Said == [title |-> "Said", content |-> "She said 'no'"]
Riddle == [title |-> "Riddle", content |-> "A Mystery"]
Quest == [title |-> "Quest", content |-> "Amy found Bob. Amy grew. Amy, Bob, Bob!"]
Crowd == [title |-> "Crowd",
          content |-> repeat("Ann Bob Cal Dan Eve Fay Gus Hal Ian Jon Kim. ", 3)]
Pair == [title |-> "Pair", content |-> repeat("Amy met Bob. ", 11)]
Roll == [title |-> "Roll",
         content |-> "The Al Bob Amy Amy Amy Amy. The Al Bob? The Al Bob. Cal Cal."]
Fling == [title |-> "Fling", content |-> "Love and conflict"]
Cast == [title |-> "Cast", content |-> "One character"]
FillerWord(i) == "a "
Tome == [title |-> "Tome", content |-> str_concat(FillerWord, 1, 4999) \o "character"]

ArcScenes == {Blank, Duel, Storm, Feast, Panic}
CastScenes == {Bond, Chase, Panic, Feast}
RepeatScenes == {Storm, Feast}
EndpointScenes == {Blank, Fifty, FortyNine}
OrderScenes == {Blank, Storm, Feast, Lull}
MeanScenes == {Blank, Storm, Clash}
ThemeScenes == {Blank, Vow, Reign, Oath}
JoinScenes == {Blank, Second, Chance, Reign}
PacingScenes == {Blank, Dash, Gaze, Said}
InsightScenes == {Blank, Riddle, Fling, Cast}
NameScenes == {Quest, Crowd, Roll, Pair}

\* two instants a scene may be created at
EarlyOrLate == {1, 2}

NodesOf(scenes, awareness) ==
    {[title |-> s.title, content |-> s.content, created_at |-> t, tz_aware |-> a] :
        s \in scenes, t \in 1..MaxScenes, a \in awareness}

RECURSIVE SeqsUpTo(_, _)
SeqsUpTo(S, n) ==
    IF n = 0 THEN {<<>>}
    ELSE LET shorter == SeqsUpTo(S, n - 1)
         IN shorter \cup {Append(q, x) : q \in {r \in shorter : Len(r) = n - 1}, x \in S}

RequestsOf(scenes, awareness) == SeqsUpTo(NodesOf(scenes, awareness), MaxScenes)

NoResult == [status |-> "none"]

None == "None"
NoRequest == [route |-> "none"]
NoResponse == [status_code |-> 0]

\* the branch service at start-up: no Redis connection yet, nothing cached
BranchIdle ==
    /\ redis_client = None
    /\ cache = <<>>
    /\ branch_request = NoRequest
    /\ branch_response = NoResponse
    /\ generation_failed = FALSE

Pending(requests) ==
    /\ nodes \in requests
    /\ result = NoResult
    /\ previous = NoResult
    /\ invoked = FALSE
    /\ now = 0
    /\ BranchIdle

-----------------------------------------------------------------------------
(* The analysis service called directly (the core's analyze operation).    *)

AnalyzeStory ==
    /\ result = NoResult
    /\ result' = analyze_story(nodes, now)
    /\ invoked' = TRUE
    /\ UNCHANGED <<nodes, previous, now>>
    /\ UNCHANGED branch_vars

\* the caller keeps the answer and sends the same request again
Repeat ==
    /\ result # NoResult
    /\ previous = NoResult
    /\ previous' = result
    /\ result' = NoResult
    /\ UNCHANGED <<nodes, invoked, now>>
    /\ UNCHANGED branch_vars

Tick ==
    /\ now < MaxClock
    /\ now' = now + 1
    /\ UNCHANGED analysis_vars
    /\ UNCHANGED branch_vars

\* the emotional arc over short scenes
InitArc == Pending(RequestsOf(ArcScenes, {FALSE}))
SpecArc == InitArc /\ [][AnalyzeStory]_vars

\* characters, relationships and the scores at their limits
InitCast == Pending(RequestsOf(CastScenes, {FALSE}))
SpecCast == InitCast /\ [][AnalyzeStory]_vars

\* scenes in any arrival order, a blank one and a slow one among them
InitOrder == Pending(RequestsOf(OrderScenes, {FALSE}))
SpecOrder == InitOrder /\ [][AnalyzeStory]_vars

\* one scene more than elsewhere, each early or late, so that the mean of
\* the tensions is not always a whole number
InitMean ==
    Pending(SeqsUpTo({[title |-> s.title, content |-> s.content, created_at |-> t,
                       tz_aware |-> FALSE] : s \in MeanScenes, t \in EarlyOrLate},
                     MaxScenes + 1))
SpecMean == InitMean /\ [][AnalyzeStory]_vars

\* themes that tie, themes that win, and a theme thinly spread over a text
InitTheme == Pending(RequestsOf(ThemeScenes, {FALSE}))
SpecTheme == InitTheme /\ [][AnalyzeStory]_vars

\* scenes that end and begin with the halves of a keyword of two words
InitJoin == Pending(RequestsOf(JoinScenes, {FALSE}))
SpecJoin == InitJoin /\ [][AnalyzeStory]_vars

\* action, description and quoted speech in small amounts
InitPacing == Pending(RequestsOf(PacingScenes, {FALSE}))
SpecPacing == InitPacing /\ [][AnalyzeStory]_vars

\* short stories, the same stories drawn out by blank scenes to nine scenes
\* and more, and stories of 5000 words and more
NodeOf(scene) ==
    [title |-> scene.title, content |-> scene.content, created_at |-> 1, tz_aware |-> FALSE]
BlankScenes(n) == [k \in 1..n |-> NodeOf(Blank)]
ShortStories == RequestsOf(InsightScenes, {FALSE})
DrawnOutStories == {story \o BlankScenes(8) : story \in ShortStories \ {<<>>}}
LongStories == {
    <<NodeOf(Tome)>>,
    <<NodeOf(Tome), NodeOf(Fling)>>,
    <<NodeOf(Tome), NodeOf(Fling), NodeOf(Riddle)>> \o BlankScenes(7) }
InitInsights == Pending(ShortStories \cup DrawnOutStories \cup LongStories)
SpecInsights == InitInsights /\ [][AnalyzeStory]_vars

\* casts of two names and of eleven, names that share many sentences, and
\* capitalized words that are no names
InitNames ==
    Pending(SeqsUpTo({[title |-> s.title, content |-> s.content, created_at |-> t,
                       tz_aware |-> FALSE] : s \in NameScenes, t \in EarlyOrLate},
                     MaxScenes))
SpecNames == InitNames /\ [][AnalyzeStory]_vars

\* the same request analysed twice, at the same or at different instants
InitRepeat == Pending(RequestsOf(RepeatScenes, {FALSE}))
NextRepeat == AnalyzeStory \/ Repeat \/ Tick
SpecRepeat == InitRepeat /\ [][NextRepeat]_vars

-----------------------------------------------------------------------------
(* The endpoint serving a request.                                         *)

AnalyzeEndpoint ==
    /\ result = NoResult
    /\ result' = analyze_endpoint(nodes, now)
    /\ invoked' = result'.invoked
    /\ UNCHANGED <<nodes, previous, now>>
    /\ UNCHANGED branch_vars

InitEndpoint == Pending(RequestsOf(EndpointScenes, BOOLEAN))
SpecEndpoint == InitEndpoint /\ [][AnalyzeEndpoint]_vars

-----------------------------------------------------------------------------
(* Branch generation (services/ai_service.py, routers/branches.py).        *)
(* An option carries id, title, impact and tags; its summary, content and  *)
(* character list are copied along with them and are left out.  The        *)
(* generation_time of a response is a duration and is left out as well.    *)

RedisClient == "Redis"

\* BranchOption.impact: Field(..., pattern="^(low|medium|high)$")
valid_impact(impact) == impact \in {"low", "medium", "high"}

fallback_options == <<
    [title |-> "Unexpected Discovery", impact |-> "high",
     tags |-> <<"mystery", "revelation">>],
    [title |-> "Character Encounter", impact |-> "medium",
     tags |-> <<"character", "news">>],
    [title |-> "Internal Reflection", impact |-> "low",
     tags |-> <<"introspection", "decision">> ] >>

create_fallback_branch(index, timestamp) ==
    LET option == fallback_options[(index % Len(fallback_options)) + 1]
    IN [id |-> "fallback_" \o ToString(timestamp) \o "_" \o ToString(index),
        title |-> option.title, impact |-> option.impact, tags |-> option.tags]

\* branch_data.get(key, default)
dict_get(data, key, default) == IF key \in DOMAIN data THEN data[key] ELSE default

\* the loop over response["branches"]: a branch that fails validation is skipped
parsed_branches(branch_list, timestamp) ==
    LET one(k) ==
            LET i == k - 1
                impact == lower(dict_get(branch_list[k], "impact", "medium"))
            IN IF valid_impact(impact)
               THEN <<[id |-> "branch_" \o ToString(timestamp) \o "_" \o ToString(i),
                       title |-> dict_get(branch_list[k], "title",
                                          "Branch " \o ToString(i + 1)),
                       impact |-> impact,
                       tags |-> dict_get(branch_list[k], "tags", <<>>)]>>
               ELSE <<>>
    IN seq_concat(one, 1, Len(branch_list))

\* while len(branches) < 3: branches.append(self._create_fallback_branch(len(branches)))
RECURSIVE pad_branches(_, _)
pad_branches(branches, timestamp) ==
    IF Len(branches) < 3
    THEN pad_branches(Append(branches, create_fallback_branch(Len(branches), timestamp)),
                      timestamp)
    ELSE branches

\* variant: the parsed branches are cut to 3 and never filled up
parse_grok_response_unpadded(branch_list, timestamp) ==
    LET branches == parsed_branches(branch_list, timestamp)
    IN SubSeq(branches, 1, Min(3, Len(branches)))

parse_grok_response(branch_list, timestamp) ==
    SubSeq(pad_branches(parsed_branches(branch_list, timestamp), timestamp), 1, 3)

generate_fallback_branches(timestamp) ==
    [options |-> <<create_fallback_branch(0, timestamp),
                   create_fallback_branch(1, timestamp),
                   create_fallback_branch(2, timestamp)>>,
     cached |-> FALSE]

\* hashlib.md5(...).hexdigest(): a digest taken as collision free, so that two keys
\* are equal exactly when the hashed contents are
md5_hexdigest(content) == "md5(" \o content \o ")"

generate_cache_key(request) ==
    LET content == request.context \o "_" \o request.genre \o "_" \o request.tone \o "_"
                   \o join(",", request.character_names)
    IN "branches:" \o md5_hexdigest(content)

\* the options stored under the key; the empty list stands for None too, as
\* "if cached_result:" takes both alike: no client, Redis fails, key not set
get_cached_result(client, store, cache_key, redis_ok) ==
    IF client = None THEN <<>>
    ELSE IF ~redis_ok THEN <<>>
    ELSE IF cache_key \in DOMAIN store THEN store[cache_key]
    ELSE <<>>

\* setex(cache_key, timedelta(hours=1), ...): the store afterwards
cache_result(client, store, cache_key, branches, redis_ok) ==
    IF client = None THEN store
    ELSE IF ~redis_ok THEN store
    ELSE dict_put(store, cache_key, branches)

\* _call_grok_api: the parsed options, or the exception it re-raises
call_grok_api(ai, timestamp) ==
    IF ai.raises THEN [raised |-> TRUE]
    ELSE [raised |-> FALSE, branches |-> parse_grok_response(ai.branches, timestamp)]

\* variant: the fallback branches are stored like a generated result
generate_branches_storing_fallback(request, client, store, ai, get_ok, set_ok, timestamp) ==
    LET cache_key == generate_cache_key(request)
        cached_result == get_cached_result(client, store, cache_key, get_ok)
        generated == call_grok_api(ai, timestamp)
        branches == IF generated.raised THEN generate_fallback_branches(timestamp).options
                    ELSE generated.branches
    IN IF cached_result # <<>>
       THEN [raised |-> FALSE, store |-> store, failed |-> FALSE,
             response |-> [options |-> cached_result, cached |-> TRUE]]
       ELSE [raised |-> FALSE, failed |-> generated.raised,
             store |-> cache_result(client, store, cache_key, branches, set_ok),
             response |-> [options |-> branches, cached |-> FALSE]]

\* AIService.generate_branches: the response, the store it leaves behind, and
\* whether "AI generation failed" was logged
generate_branches(request, client, store, ai, get_ok, set_ok, timestamp) ==
    LET cache_key == generate_cache_key(request)
        cached_result == get_cached_result(client, store, cache_key, get_ok)
        generated == call_grok_api(ai, timestamp)
    IN IF cached_result # <<>>
       THEN [raised |-> FALSE, store |-> store, failed |-> FALSE,
             response |-> [options |-> cached_result, cached |-> TRUE]]
       ELSE IF ~generated.raised
       THEN [raised |-> FALSE, failed |-> FALSE,
             store |-> cache_result(client, store, cache_key, generated.branches, set_ok),
             response |-> [options |-> generated.branches, cached |-> FALSE]]
       ELSE [raised |-> FALSE, store |-> store, failed |-> TRUE,
             response |-> generate_fallback_branches(timestamp)]

\* what a route answers for the outcome of the service call
route_response(outcome) ==
    IF outcome.raised
    THEN [status_code |-> 500, detail |-> "Failed to generate story branches"]
    ELSE [status_code |-> 200, body |-> outcome.response]

\* init_redis: the client when the ping succeeds, else None
init_redis(ping_ok) == IF ping_ok THEN RedisClient ELSE None

\* the branch requests sent, and what the language model may answer
GoodBranch == [impact |-> "High", tags |-> <<"twist">>]
BadBranch == [title |-> "Twist", impact |-> "urgent"]

BranchRequestPool == {
    [context |-> "a", current_node_id |-> "n1", character_names |-> <<"x", "y">>,
     genre |-> "b_c", tone |-> "neutral"],
    [context |-> "a_b", current_node_id |-> "n2", character_names |-> <<"x,y">>,
     genre |-> "c", tone |-> "neutral"],
    [context |-> " ", current_node_id |-> "n1", character_names |-> <<>>,
     genre |-> "", tone |-> "neutral"] }

\* "branches" of an answer: none, too few, one to skip, exactly three, too many
BranchLists == {
    <<>>,
    <<BadBranch, GoodBranch>>,
    <<GoodBranch, GoodBranch, GoodBranch>>,
    <<GoodBranch, BadBranch, GoodBranch, GoodBranch, GoodBranch>> }

\* the call fails (API error, answer that is not the expected JSON), or it answers
AiOutcomes ==
    {[raises |-> TRUE]} \cup {[raises |-> FALSE, branches |-> list] : list \in BranchLists}

\* POST /branches/generate
GenerateBranches ==
    /\ now < MaxRequests
    /\ \E request \in BranchRequestPool, ai \in AiOutcomes, ping_ok, get_ok, set_ok \in BOOLEAN :
          /\ branch_request' = [route |-> "generate", request |-> request]
          /\ IF strip(request.context) = ""
             THEN /\ branch_response' = [status_code |-> 400,
                                         detail |-> "Context cannot be empty"]
                  /\ generation_failed' = FALSE
                  /\ UNCHANGED <<redis_client, cache>>
             ELSE LET client == IF redis_client = None THEN init_redis(ping_ok)
                                ELSE redis_client
                      outcome == generate_branches(request, client, cache, ai, get_ok,
                                                   set_ok, now)
                  IN /\ redis_client' = client
                     /\ cache' = outcome.store
                     /\ branch_response' = route_response(outcome)
                     /\ generation_failed' = outcome.failed
    /\ now' = now + 1
    /\ UNCHANGED analysis_vars

\* POST /branches/regenerate
RegenerateBranches ==
    /\ now < MaxRequests
    /\ \E request \in BranchRequestPool, ai \in AiOutcomes, get_ok, set_ok \in BOOLEAN :
          LET modified_request == [request EXCEPT !.context = @ \o " [regenerated]"]
              outcome == generate_branches(modified_request, redis_client, cache, ai,
                                           get_ok, set_ok, now)
          IN /\ branch_request' = [route |-> "regenerate", request |-> request]
             /\ cache' = outcome.store
             /\ branch_response' = route_response(outcome)
             /\ generation_failed' = outcome.failed
             /\ UNCHANGED redis_client
    /\ now' = now + 1
    /\ UNCHANGED analysis_vars

\* a key reaches the end of its hour and Redis drops it
Expire ==
    /\ \E cache_key \in DOMAIN cache :
          cache' = [k \in DOMAIN cache \ {cache_key} |-> cache[k]]
    /\ UNCHANGED <<redis_client, branch_request, branch_response, generation_failed, now>>
    /\ UNCHANGED analysis_vars

InitBranches ==
    /\ nodes = <<>>
    /\ result = NoResult
    /\ previous = NoResult
    /\ invoked = FALSE
    /\ now = 0
    /\ BranchIdle

NextBranches == GenerateBranches \/ RegenerateBranches \/ Expire
SpecBranches == InitBranches /\ [][NextBranches]_vars

-----------------------------------------------------------------------------
(* Properties of the analysis: the profile of a call that returned.        *)

Answered == result # NoResult /\ result.status = "ok"

\* the stable chronological order, stated without sorting: order[k] is the
\* place in the request of the k-th scene
Chronological(ns) ==
    CHOOSE order \in [1..Len(ns) -> 1..Len(ns)] :
        /\ \A i, j \in 1..Len(ns) : i # j => order[i] # order[j]
        /\ \A i, j \in 1..Len(ns) :
              i < j => \/ ns[order[i]].created_at < ns[order[j]].created_at
                       \/ /\ ns[order[i]].created_at = ns[order[j]].created_at
                          /\ order[i] < order[j]

(* C1: when analyze is invoked with zero scenes the profile has peak moment
   "No peak identified", tension score 0, core theme "No clear theme",
   consistency score 0, ratio "50/50" and exactly one insight, the fallback. *)
C1_EmptyInput ==
    (Answered /\ nodes = <<>>) =>
        /\ result.profile.emotional_arc.peak_moment = "No peak identified"
        /\ result.profile.emotional_arc.tension_score = 0
        /\ result.profile.theme_consistency.core_theme = "No clear theme"
        /\ result.profile.theme_consistency.consistency_score = 0
        /\ result.profile.pacing_analysis.action_vs_dialogue_ratio = "50/50"
        /\ result.profile.comparative_insights = <<InsightFallback>>

BothAnswered == Answered /\ previous.status = "ok"

(* C2 as stated: two calls of analyze with the same scene sequence return
   profiles that are identical in every field. *)
C2_IdenticalInEveryField ==
    BothAnswered => result.profile = previous.profile

WithoutTimestamp(profile) ==
    [field \in DOMAIN profile \ {"analysis_timestamp"} |-> profile[field]]

(* C2, amended: two calls of analyze with the same scene sequence return
   profiles that are identical in every field other than the analysis
   timestamp, which is the instant of each call. *)
C2_IdenticalButTimestamp ==
    BothAnswered => WithoutTimestamp(result.profile) = WithoutTimestamp(previous.profile)

\* a story of two scenes analysed twice, at two instants
C2_Witness ==
    /\ BothAnswered
    /\ Len(nodes) = 2
    /\ result.profile.analysis_timestamp # previous.profile.analysis_timestamp

(* C3: in every profile the overall tension score, every per-scene tension
   and the consistency score lie in 0..100, every arc strength and every
   relationship strength in 0..10, and the pacing score in 10..100. *)
C3_ScoreRanges ==
    Answered =>
        LET points == result.profile.emotional_arc.emotional_points
            arcs == result.profile.character_development.character_arcs
            matrix == result.profile.character_development.relationship_matrix
        IN /\ result.profile.emotional_arc.tension_score \in 0..100
           /\ \A k \in DOMAIN points : points[k].tension \in 0..100
           /\ result.profile.theme_consistency.consistency_score \in 0..100
           /\ \A k \in DOMAIN arcs : arcs[k].arc_strength \in 0..10
           /\ \A pair \in DOMAIN matrix : matrix[pair].strength \in 0..10
           /\ result.profile.pacing_analysis.pacing_score \in 10..100

\* a scene whose keywords alone add up to more than 100, next to characters
\* with arcs and a relationship
C3_Witness ==
    /\ Answered
    /\ \E k \in DOMAIN nodes :
          10 * sum_counts(lower(strip_tags(nodes[k].content)), tension_keywords) > 100
    /\ result.profile.character_development.character_arcs # <<>>
    /\ DOMAIN result.profile.character_development.relationship_matrix # {}

(* C4: for any arrival order the emotional points hold one point per scene,
   blank scenes included, numbered 1..n in increasing order; the theme
   mentions have strictly increasing scene numbers; and number k denotes the
   k-th scene of the stable sort by created_at in every analyzer: in the
   emotional points, in the theme mentions and in the slow sections. *)
C4_SceneOrder ==
    Answered =>
        LET order == Chronological(nodes)
            points == result.profile.emotional_arc.emotional_points
            mentions == result.profile.theme_consistency.theme_mentions
            slow == result.profile.pacing_analysis.slow_sections
            label(k) == "Scene " \o ToString(k) \o ": " \o nodes[order[k]].title
        IN /\ Len(points) = Len(nodes)
           /\ \A s \in DOMAIN slow :
                 \E k \in 1..Len(nodes) :
                    /\ slow[s] = label(k)
                    /\ s > 1 => \E j \in 1..(k - 1) : slow[s - 1] = label(j)
           /\ \A k \in DOMAIN points :
                 /\ points[k].scene = k
                 /\ points[k].title = nodes[order[k]].title
           /\ \A m \in DOMAIN mentions :
                 /\ mentions[m].scene \in 1..Len(nodes)
                 /\ mentions[m].title = nodes[order[mentions[m].scene]].title
                 /\ m > 1 => mentions[m - 1].scene < mentions[m].scene

\* two scenes that arrive latest first, one of them blank, the other one
\* slow and mentioning the core theme
C4_Witness ==
    /\ Answered
    /\ Len(nodes) = 2
    /\ nodes[1].created_at > nodes[2].created_at
    /\ strip(strip_tags(nodes[2].content)) = ""
    /\ Len(result.profile.theme_consistency.theme_mentions) = 1
    /\ Len(result.profile.pacing_analysis.slow_sections) = 1

(* C5: the relationship matrix is symmetric and canonical: for any two
   candidate names A and B the edge computed for (A,B) equals the edge
   computed for (B,A), the matrix holds at most one of the keys "A-B" and
   "B-A", and it never holds a self-pair "A-A". *)
C5_MatrixCanonical ==
    Answered =>
        LET full_text == extract_story_text(nodes)
            names == extract_character_names(full_text)
            sentences == lower_sentences(full_text)
            matrix == result.profile.character_development.relationship_matrix
        IN \A i, j \in DOMAIN names :
              /\ relationship_edge(names[i], names[j], sentences)
                    = relationship_edge(names[j], names[i], sentences)
              /\ i # j => ~ /\ relationship_key(names[i], names[j]) \in DOMAIN matrix
                            /\ relationship_key(names[j], names[i]) \in DOMAIN matrix
              /\ relationship_key(names[i], names[i]) \notin DOMAIN matrix

\* two candidates that share sentences, and the edge stored for them
C5_Witness ==
    /\ Answered
    /\ Len(extract_character_names(extract_story_text(nodes))) >= 2
    /\ DOMAIN result.profile.character_development.relationship_matrix # {}

-----------------------------------------------------------------------------
(* Properties of the endpoint.                                             *)

(* C6: the endpoint answers a request with no nodes, and a request whose
   nodes total fewer than 100 whitespace-separated words, with 400 before
   the analysis service is invoked; the 400 is not turned into a 500; any
   other failure during the analysis is answered with 500. *)
C6_Validation ==
    result # NoResult =>
        LET too_short == Len(nodes) = 0 \/ total_words(nodes) < 100
        IN /\ too_short => (result.status_code = 400 /\ ~invoked)
           /\ ~too_short =>
                 /\ invoked
                 /\ result.status_code = (IF sort_raises(nodes) THEN 500 ELSE 200)

\* a request of 99 words turned down
C6_Witness ==
    /\ result # NoResult
    /\ Len(nodes) > 0
    /\ total_words(nodes) = 99
    /\ result.status_code = 400

\* a request of 100 words whose analysis fails
C6_AnalysisFails ==
    /\ result # NoResult
    /\ total_words(nodes) = 100
    /\ result.status_code = 500

-----------------------------------------------------------------------------
(* Properties of the emotional arc and of the protagonist's growth.        *)

(* C7: the tension of each scene is min(100, 10 x the occurrences of the
   tension keywords in the lower-cased stripped text, + 30 if "climax",
   "confrontation" or "revelation" occurs); a scene with "danger" twice and
   "revelation" once scores 50. *)
C7_SceneTension ==
    Answered =>
        LET order == Chronological(nodes)
            points == result.profile.emotional_arc.emotional_points
        IN \A k \in DOMAIN points :
              LET scene_text == lower(strip_tags(nodes[order[k]].content))
                  occurrences == sum_counts(scene_text, tension_keywords)
                  bonus == IF \E word \in {"climax", "confrontation", "revelation"} :
                                 contains(scene_text, word)
                           THEN 30 ELSE 0
              IN /\ points[k].tension = Min(100, 10 * occurrences + bonus)
                 /\ nodes[order[k]].content = Storm.content => points[k].tension = 50

\* the scene with "danger" twice and "revelation" once has been scored
C7_Witness ==
    /\ Answered
    /\ \E k \in DOMAIN nodes :
          /\ count(lower(strip_tags(nodes[k].content)), "danger") = 2
          /\ count(lower(strip_tags(nodes[k].content)), "revelation") = 1
          /\ nodes[k].content # lower(nodes[k].content)

EmotionSums(scene_text) ==
    [e \in DOMAIN emotion_keywords |-> sum_counts(scene_text, emotion_keywords[e].keywords)]

(* C8: the dominant emotion of each scene is the category among tension,
   joy, sadness, anger, love with the highest keyword-occurrence sum; among
   tied categories the one declared first wins; when every sum is zero it is
   "neutral". *)
C8_DominantEmotion ==
    /\ [e \in DOMAIN emotion_keywords |-> emotion_keywords[e].emotion]
          = <<"tension", "joy", "sadness", "anger", "love">>
    /\ Answered =>
          LET order == Chronological(nodes)
              points == result.profile.emotional_arc.emotional_points
          IN \A k \in DOMAIN points :
                LET sums == EmotionSums(lower(strip_tags(nodes[order[k]].content)))
                    highest == SetMax({sums[e] : e \in DOMAIN sums})
                    winners == {e \in DOMAIN sums : sums[e] = highest}
                IN points[k].dominant_emotion =
                      IF highest = 0 THEN "neutral"
                      ELSE emotion_keywords[SetMin(winners)].emotion

\* a scene where several categories tie for the highest sum, and a scene
\* where every sum is zero
C8_Witness ==
    /\ Answered
    /\ \E k \in DOMAIN nodes :
          LET sums == EmotionSums(lower(strip_tags(nodes[k].content)))
          IN \E e, f \in DOMAIN sums :
                /\ e # f /\ sums[e] > 0 /\ sums[e] = sums[f]
                /\ \A g \in DOMAIN sums : sums[g] <= sums[e]
    /\ \E k \in DOMAIN nodes :
          LET sums == EmotionSums(lower(strip_tags(nodes[k].content)))
          IN \A e \in DOMAIN sums : sums[e] = 0

GlossaryDevelopmentVerbs ==
    <<"learned", "realized", "understood", "changed", "grew", "developed", "discovered",
      "found", "became", "transformed">>

(* C9: the protagonist's growth is the string "{g}% completed" with
   g = min(100, 5 x the case-insensitive occurrences of the ten development
   verbs in the full text); for the single scene "Alice fought Bob. Alice
   fought Bob again. Alice realized she had changed." g is 10 and the arc of
   "Alice" has strength at least 1. *)
C9_ProtagonistGrowth ==
    Answered =>
        LET full_text == extract_story_text(nodes)
            g == Min(100, 5 * sum_counts(lower(full_text), GlossaryDevelopmentVerbs))
            development == result.profile.character_development
        IN /\ development.protagonist_growth = ToString(g) \o "% completed"
           /\ (Len(nodes) = 1 /\ nodes[1].content = Duel.content) =>
                 /\ development.protagonist_growth = "10% completed"
                 /\ \E k \in DOMAIN development.character_arcs :
                       /\ development.character_arcs[k].name = "Alice"
                       /\ development.character_arcs[k].arc_strength >= 1

\* the single scene about Alice has been analysed
C9_Witness ==
    /\ Answered
    /\ Len(nodes) = 1
    /\ nodes[1].content = Duel.content

\* a story in which a development verb occurs more than once
C9_RepeatedVerb ==
    /\ Answered
    /\ \E k \in DOMAIN GlossaryDevelopmentVerbs :
          count(lower(extract_story_text(nodes)), GlossaryDevelopmentVerbs[k]) > 1

-----------------------------------------------------------------------------
(* Properties of branch generation.                                        *)

BranchAnswered == branch_response # NoResponse

(* C10: every response of generate_branches carries exactly 3 options,
   whichever path produced it (cache hit, model answer padded or cut to 3,
   fallback after a failed call), and generate_branches never raises because
   the call to the language model or the cache failed: no route answers 500,
   and 400 is the answer to a blank context only. *)
C10_ThreeOptions ==
    BranchAnswered =>
        /\ branch_response.status_code \in {200, 400}
        /\ branch_response.status_code = 200 => Len(branch_response.body.options) = 3
        /\ branch_response.status_code = 400 =>
              /\ branch_request.route = "generate"
              /\ strip(branch_request.request.context) = ""

\* an answer of the language model with one usable branch, filled up with
\* fallback branches
C10_Witness ==
    /\ BranchAnswered
    /\ branch_response.status_code = 200
    /\ ~branch_response.body.cached
    /\ SubSeq(branch_response.body.options[1].id, 1, 7) = "branch_"
    /\ SubSeq(branch_response.body.options[3].id, 1, 9) = "fallback_"

\* an answer served from the cache
C10_CacheHit ==
    /\ BranchAnswered
    /\ branch_response.status_code = 200
    /\ branch_response.body.cached

(* C11: a call to /branches/regenerate forces a cache bypass: after any
   history of earlier generate and regenerate calls, an earlier regenerate
   of the same request included, its response is freshly generated and is
   never a cached result. *)
C11_RegenerateBypassesCache ==
    (BranchAnswered /\ branch_request.route = "regenerate") =>
        (branch_response.status_code = 200 => ~branch_response.body.cached)

(* C12: the overall tension score is the integer mean of the per-scene
   tensions, 0 when there are no scenes, and the peak moment is the title of
   the earliest scene in chronological order whose tension equals the
   maximum. *)
C12_MeanAndPeak ==
    Answered =>
        LET arc == result.profile.emotional_arc
            points == arc.emotional_points
            n == Len(points)
            total == sum_seq([k \in 1..n |-> points[k].tension])
            highest == SetMax({points[k].tension : k \in 1..n})
            earliest == SetMin({k \in 1..n : points[k].tension = highest})
        IN IF n = 0
           THEN arc.tension_score = 0 /\ arc.peak_moment = "No peak identified"
           ELSE /\ n * arc.tension_score <= total
                /\ total < n * (arc.tension_score + 1)
                /\ arc.peak_moment = points[earliest].title

\* three scenes whose mean is not a whole number, two of them with the
\* highest tension under different titles
C12_Witness ==
    /\ Answered
    /\ LET points == result.profile.emotional_arc.emotional_points
       IN /\ Len(points) = 3
          /\ (points[1].tension + points[2].tension + points[3].tension) % 3 # 0
          /\ \E j, k \in 1..3 :
                /\ j < k
                /\ points[j].tension = points[k].tension
                /\ points[j].title # points[k].title
                /\ \A i \in 1..3 : points[i].tension <= points[j].tension

-----------------------------------------------------------------------------
(* Properties of the theme analysis.                                       *)

ThemeScores(full_text) ==
    [t \in DOMAIN theme_keywords |-> sum_counts(lower(full_text), theme_keywords[t].keywords)]

(* C13: the core theme is the theme with the highest keyword score over the
   full text provided that score is above 0, ties going to the theme
   declared first (love, betrayal, redemption, power, identity, freedom,
   justice); when every theme scores 0 the profile reports no clear theme,
   consistency score 0 and no theme mentions. *)
C13_CoreTheme ==
    /\ [t \in DOMAIN theme_keywords |-> theme_keywords[t].theme]
          = <<"love", "betrayal", "redemption", "power", "identity", "freedom", "justice">>
    /\ Answered =>
          LET scores == ThemeScores(extract_story_text(nodes))
              highest == SetMax({scores[t] : t \in DOMAIN scores})
              winner == SetMin({t \in DOMAIN scores : scores[t] = highest})
              theme == result.profile.theme_consistency
          IN IF highest > 0
             THEN lower(theme.core_theme) = theme_keywords[winner].theme
             ELSE /\ lower(theme.core_theme) = "no clear theme"
                  /\ theme.consistency_score = 0
                  /\ theme.theme_mentions = <<>>

\* two themes tie for the highest score, which is above 0, and the later
\* declared of the two is not reported
C13_Witness ==
    /\ Answered
    /\ LET scores == ThemeScores(extract_story_text(nodes))
       IN \E t, u \in DOMAIN scores :
             /\ t < u
             /\ scores[t] > 0
             /\ scores[t] = scores[u]
             /\ \A v \in DOMAIN scores : scores[v] <= scores[t]
             /\ lower(result.profile.theme_consistency.core_theme) = theme_keywords[t].theme

\* a story in which no theme keyword occurs
C13_NoTheme ==
    /\ Answered
    /\ nodes # <<>>
    /\ \A t \in DOMAIN theme_keywords :
          ThemeScores(extract_story_text(nodes))[t] = 0

\* the quotient a * scale / b rounded to the nearest integer, halves upwards
RoundedScaled(a, b, scale) == (2 * a * scale + b) \div (2 * b)

(* C14: when a core theme exists the consistency score is
   clamp(round(score of the core theme / max(1, word count) x 1000), 0, 100),
   the word count being the whitespace-token count of the full text and the
   quotient being rounded to the nearest integer, not truncated. *)
C14_ConsistencyRounded ==
    Answered =>
        LET full_text == extract_story_text(nodes)
            scores == ThemeScores(full_text)
            highest == SetMax({scores[t] : t \in DOMAIN scores})
            words == Max(1, split_len(full_text))
        IN highest > 0 =>
              result.profile.theme_consistency.consistency_score
                 = Max(0, Min(100, RoundedScaled(highest, words, 1000)))

-----------------------------------------------------------------------------
(* Properties of the pacing analysis.                                      *)

\* the occurrences of the action words, of the quote characters and of the
\* description words in the full text
ActionCount(full_text) == sum_counts(lower(full_text), pacing_action)
QuoteCount(full_text) == count(full_text, "\"") + count(full_text, "'")
DescriptionCount(full_text) == sum_counts(lower(full_text), pacing_description)
IndicatorCount(full_text) ==
    ActionCount(full_text) + QuoteCount(full_text) + DescriptionCount(full_text)

RatioInRange ==
    \E A \in 0..100 :
        result.profile.pacing_analysis.action_vs_dialogue_ratio
           = ToString(A) \o "/" \o ToString(100 - A)

(* C15 as stated: in every profile the ratio string "A/B" has A + B = 100
   with A and B in 0..100, and it is "50/50" exactly when no action,
   dialogue or description indicator occurs in the full text. *)
C15_FiftyFiftyExactly ==
    Answered =>
        /\ RatioInRange
        /\ result.profile.pacing_analysis.action_vs_dialogue_ratio = "50/50"
              <=> IndicatorCount(extract_story_text(nodes)) = 0

(* C15, amended: in every profile the ratio string "A/B" has A + B = 100
   with A and B in 0..100; it is "50/50" whenever no indicator occurs in the
   full text, and also when indicators occur of which action and dialogue
   make up one half. *)
C15_RatioString ==
    Answered =>
        /\ RatioInRange
        /\ IndicatorCount(extract_story_text(nodes)) = 0 =>
              result.profile.pacing_analysis.action_vs_dialogue_ratio = "50/50"

\* action and dialogue whose shares are not whole numbers: one action word
\* and two quote characters give 33 + 66 and the string "99/1"
C15_Witness ==
    /\ Answered
    /\ LET full_text == extract_story_text(nodes)
       IN /\ QuoteCount(full_text) = 2 * ActionCount(full_text)
          /\ IndicatorCount(full_text) = 3 * ActionCount(full_text)
          /\ ActionCount(full_text) > 0
    /\ result.profile.pacing_analysis.action_vs_dialogue_ratio = "99/1"

\* as much action as description, nothing quoted: "50/50" with indicators
C15_HalfAction ==
    /\ Answered
    /\ IndicatorCount(extract_story_text(nodes)) > 0
    /\ result.profile.pacing_analysis.action_vs_dialogue_ratio = "50/50"

(* C16: when total = action + dialogue + description > 0 the ratio string
   is "{actionRatio + dialogueRatio}/{100 - actionRatio - dialogueRatio}"
   with actionRatio = round(action / total x 100) and dialogueRatio =
   round(dialogue / total x 100), rounded to the nearest integer, dialogue
   counting only the quote characters. *)
C16_RatioRounded ==
    Answered =>
        LET full_text == extract_story_text(nodes)
            total == IndicatorCount(full_text)
            actionRatio == RoundedScaled(ActionCount(full_text), total, 100)
            dialogueRatio == RoundedScaled(QuoteCount(full_text), total, 100)
        IN total > 0 =>
              result.profile.pacing_analysis.action_vs_dialogue_ratio
                 = ToString(actionRatio + dialogueRatio) \o "/"
                   \o ToString(100 - actionRatio - dialogueRatio)

-----------------------------------------------------------------------------
(* Properties of the comparative insights.                                 *)

\* the rules in the order of their declaration: whether each matches the
\* story, and the string it contributes
InsightRules ==
    LET full_text == extract_story_text(nodes)
        text_lower == lower(full_text)
    IN << [matches |-> Len(nodes) >= 10 /\ contains(text_lower, "mystery"),
           insight |-> InsightMystery],
          [matches |-> split_len(full_text) > 5000 /\ contains(text_lower, "character"),
           insight |-> InsightEnsemble],
          [matches |-> contains(text_lower, "love") /\ contains(text_lower, "conflict"),
           insight |-> InsightRomance] >>

(* C17: the comparative insights are never empty: each matching rule
   contributes its fixed string once, in the order of declaration (mystery
   structure, ensemble characters, romance with conflict), and the fallback
   string is present if and only if no rule matched, and then it is the only
   element. *)
C17_Insights ==
    Answered =>
        LET rules == InsightRules
            insights == result.profile.comparative_insights
            matched == {r \in DOMAIN rules : rules[r].matches}
            place(r) == Cardinality({q \in matched : q <= r})
        IN /\ insights # <<>>
           /\ (\E k \in DOMAIN insights : insights[k] = InsightFallback) <=> matched = {}
           /\ matched = {} => insights = <<InsightFallback>>
           /\ matched # {} =>
                 /\ Len(insights) = Cardinality(matched)
                 /\ \A r \in matched : insights[place(r)] = rules[r].insight

\* a story that all three rules match
C17_Witness ==
    /\ Answered
    /\ \A r \in DOMAIN InsightRules : InsightRules[r].matches
    /\ Len(result.profile.comparative_insights) = 3

\* stories just below the thresholds: nine scenes that name a mystery, and
\* 5000 words that name a character
C17_BelowThresholds ==
    /\ Answered
    /\ \/ Len(nodes) = 9 /\ contains(lower(extract_story_text(nodes)), "mystery")
       \/ /\ split_len(extract_story_text(nodes)) = 5000
          /\ contains(lower(extract_story_text(nodes)), "character")
    /\ result.profile.comparative_insights = <<InsightFallback>>

-----------------------------------------------------------------------------
(* Properties of the cast: the arcs, the relationship matrix and the       *)
(* candidate names.                                                        *)

Candidates == extract_character_names(extract_story_text(nodes))

\* the sentences of the full text, lower-cased, that hold the name
SentencesWith(name) ==
    LET sentences == lower_sentences(extract_story_text(nodes))
    IN {k \in DOMAIN sentences : contains(sentences[k], lower(name))}

(* C18: the character arcs hold one entry for each of the first 5 candidate
   names, in candidate order, and the strength of each arc is min(10, the
   number of sentences that contain the name and at least one of the ten
   development words of the Glossary). *)
C18_CharacterArcs ==
    Answered =>
        LET arcs == result.profile.character_development.character_arcs
            sentences == lower_sentences(extract_story_text(nodes))
            developing(name) == {k \in SentencesWith(name) :
                                    any_in(sentences[k], GlossaryDevelopmentVerbs)}
        IN /\ Len(arcs) = Min(5, Len(Candidates))
           /\ \A k \in DOMAIN arcs :
                 /\ arcs[k].name = Candidates[k]
                 /\ arcs[k].arc_strength = Min(10, Cardinality(developing(arcs[k].name)))

\* for each candidate, the sentences of the full text that hold its name,
\* whatever the case of the letters
SentencesOfCandidates ==
    LET candidates == Candidates
        sentences == lower_sentences(extract_story_text(nodes))
    IN [k \in DOMAIN candidates |->
          {n \in DOMAIN sentences : contains(sentences[n], lower(candidates[k]))}]

\* the pairs of n candidates the matrix may join: the first of the pair
\* among the first five candidates, the second after it among the first six
JoinablePairs(n) == {<<i, j>> \in (1..n) \X (1..n) : i <= 5 /\ i < j /\ j <= 6}

(* C19: the relationship matrix has an edge for candidates[i] and
   candidates[j] exactly when 0 <= i < 5, i < j < 6 (counting from 0) and at
   least one sentence of the full text contains both names
   case-insensitively; the strength of the edge is min(10, the number of
   such sentences), hence in 1..10, and its type is "connected"; the matrix
   has no other key. *)
C19_MatrixEdges ==
    Answered =>
        LET matrix == result.profile.character_development.relationship_matrix
            candidates == Candidates
            holding == SentencesOfCandidates
            shared(p) == holding[p[1]] \cap holding[p[2]]
            joined == {p \in JoinablePairs(Len(candidates)) : shared(p) # {}}
            key(p) == candidates[p[1]] \o "-" \o candidates[p[2]]
        IN /\ DOMAIN matrix = {key(p) : p \in joined}
           /\ \A p \in joined :
                 /\ matrix[key(p)].strength = Min(10, Cardinality(shared(p)))
                 /\ matrix[key(p)].strength \in 1..10
                 /\ matrix[key(p)].type = "connected"

\* a cast of more than six: the sixth and the seventh share a sentence and
\* have no edge, and two of the first six share more than ten sentences
C19_Witness ==
    /\ Answered
    /\ Len(nodes) = 2
    /\ nodes[1].content = Pair.content
    /\ nodes[2].content = Crowd.content
    /\ nodes[1].created_at <= nodes[2].created_at
    /\ LET holding == SentencesOfCandidates
           matrix == result.profile.character_development.relationship_matrix
       IN /\ Len(Candidates) > 6
          /\ holding[6] \cap holding[7] # {}
          /\ (Candidates[6] \o "-" \o Candidates[7]) \notin DOMAIN matrix
          /\ Cardinality(holding[1] \cap holding[2]) > 10
          /\ (Candidates[1] \o "-" \o Candidates[2]) \in DOMAIN matrix

\* the capitalized words of the full text, one entry for each occurrence
CapitalizedWords == findall_names(extract_story_text(nodes))

(* C20: the candidate names are the distinct capitalized words that occur at
   least 3 times (counted case-sensitively) in the full text, are not in the
   stop-list and are longer than 2 letters, listed without duplicates in the
   order of their first occurrence in the text, not by frequency, and
   truncated to the first 10. *)
C20_CandidatePool ==
    Answered =>
        LET words == CapitalizedWords
            candidates == Candidates
            occurrences(w) == {k \in DOMAIN words : words[k] = w}
            qualifying == {w \in {words[k] : k \in DOMAIN words} :
                              /\ Cardinality(occurrences(w)) >= 3
                              /\ w \notin common_words
                              /\ Len(w) > 2}
            first(w) == SetMin(occurrences(w))
            earlier(w) == {v \in qualifying : first(v) < first(w)}
        IN /\ Len(candidates) = Min(10, Cardinality(qualifying))
           /\ \A k \in DOMAIN candidates :
                 /\ candidates[k] \in qualifying
                 /\ Cardinality(earlier(candidates[k])) = k - 1
           /\ \A k, m \in DOMAIN candidates : candidates[k] = candidates[m] => k = m
           /\ \A k \in DOMAIN result.profile.character_development.character_arcs :
                 result.profile.character_development.character_arcs[k].name = candidates[k]

\* more than ten qualifying words, a candidate listed before a more frequent
\* one, and words occurring three times that are in the stop-list or have
\* two letters
C20_Witness ==
    /\ Answered
    /\ LET words == CapitalizedWords
           candidates == Candidates
           times(w) == Cardinality({k \in DOMAIN words : words[k] = w})
           frequent == {w \in {words[k] : k \in DOMAIN words} : times(w) >= 3}
       IN /\ Len(candidates) = 10
          /\ Cardinality(frequent) > 12
          /\ \E k \in 1..9 : times(candidates[k]) < times(candidates[k + 1])
          /\ \E w \in frequent : w \in common_words
          /\ \E w \in frequent : Len(w) = 2

-----------------------------------------------------------------------------
(* Properties of the theme mentions.                                       *)

(* C21: whenever a core theme is reported (some theme score over the full
   text is greater than 0) the theme mentions are not empty and the mention
   counts of the scenes sum to the score of the core theme over the full
   text, also when the text of consecutive scenes is joined with a space
   into the full text. *)
C21_MentionsSumToScore ==
    Answered =>
        LET scores == ThemeScores(extract_story_text(nodes))
            highest == SetMax({scores[t] : t \in DOMAIN scores})
            theme_mentions == result.profile.theme_consistency.theme_mentions
        IN highest > 0 =>
              /\ theme_mentions # <<>>
              /\ sum_seq([k \in DOMAIN theme_mentions |-> theme_mentions[k].mentions])
                    = highest

-----------------------------------------------------------------------------
(* Properties of the branch cache.                                         *)

\* the request generate_branches is called with: the request as sent, or
\* the request with the marked context when regenerate was called
ServedRequest(sent) ==
    IF sent.route = "regenerate"
    THEN [sent.request EXCEPT !.context = @ \o " [regenerated]"]
    ELSE sent.request

\* the same context, genre, tone and list of character names
SameCacheFields(r1, r2) ==
    /\ r1.context = r2.context
    /\ r1.genre = r2.genre
    /\ r1.tone = r2.tone
    /\ r1.character_names = r2.character_names

\* the answer carries options the language model or the cache has given
Served(response) == response # NoResponse /\ response.status_code = 200

(* C22: generate_branches answers with cached = true only with options that
   an earlier successful generation stored for a request having the same
   context, genre, tone and list of character names (current_node_id is
   ignored); two requests that differ in any of these four fields never
   share a cache entry.  The ids of the options carry the instant of their
   generation, so an answer from the cache that equals the options generated
   for the request before it was stored by that request: the two requests
   then agree in the four fields. *)
C22_CacheEntryOfSameRequest ==
    [][ ( /\ Served(branch_response)
          /\ ~branch_response.body.cached
          /\ Served(branch_response')
          /\ branch_response'.body.cached
          /\ branch_response'.body.options = branch_response.body.options )
        => SameCacheFields(ServedRequest(branch_request), ServedRequest(branch_request')) ]_vars

\* the three fallback branches made at an instant
FallbackBranches(timestamp) ==
    [k \in 1..3 |->
        [id |-> "fallback_" \o ToString(timestamp) \o "_" \o ToString(k - 1),
         title |-> fallback_options[k].title,
         impact |-> fallback_options[k].impact,
         tags |-> fallback_options[k].tags]]

(* C23: when the call to the language model fails, generate_branches
   returns the three fallback branches with cached = false and writes
   nothing to the cache, so the cache only ever holds results of successful
   calls and a later identical request calls the language model again
   instead of being served the fallback from the cache: a key missing
   before the failed call is missing after it. *)
C23_FailureWritesNothing ==
    [][ (now' # now /\ generation_failed') =>
           /\ branch_response'.status_code = 200
           /\ branch_response'.body.cached = FALSE
           /\ branch_response'.body.options = FallbackBranches(now)
           /\ cache' = cache
           /\ generate_cache_key(ServedRequest(branch_request')) \in DOMAIN cache'
                 => generate_cache_key(ServedRequest(branch_request')) \in DOMAIN cache ]_vars

\* a failed call while Redis is connected and holds the result of an earlier
\* call for another request, and nothing under the key of this request
C23_Witness ==
    /\ generation_failed
    /\ redis_client = RedisClient
    /\ cache # <<>>
    /\ generate_cache_key(ServedRequest(branch_request)) \notin DOMAIN cache
    /\ branch_response.body.options = FallbackBranches(now - 1)

====
